---- MODULE Spec2Model ----
(***************************************************************************)
(* The insight pipeline of the expense tracker: the App's transaction      *)
(* list (App.tsx), the deterministic analysis of the Analytics page        *)
(* (chartData / insights), the remote insight service getFinancialInsights *)
(* in the versions the repository holds, and its caller fetchAI.           *)
(*                                                                         *)
(* Numbers: amounts are whole pesos; a JavaScript number that need not be  *)
(* whole (a rate, a ratio, a projection) is kept as an exact fraction      *)
(* <<numerator, denominator>> and rounded where the code rounds.           *)
(* Strings: a text the code builds from a template is the record           *)
(* [s |-> the template's name, c |-> the category it names, n |-> the      *)
(* numbers it prints]; a literal of the code is the literal itself in s.   *)
(***************************************************************************)
EXTENDS Integers, Sequences, FiniteSets, TLC

\* ------------------------------------------------------------------ bounds
MaxLen == 2          \* rows the backend returns to fetchTransactions
MaxOps == 1          \* handleAddTransaction / handleDeleteTransaction calls
MaxRequests == 1     \* fetchAI runs
MaxScoreLen == 5     \* transactions entered under ScoreSpec

Amounts == {10}
Dates == {1, 2}
EntryCategories == {"Salary", "Food", "Rent"}
\* new Date(): day of month, days in month, the first date of its month
Todays == {[day |-> 15, dim |-> 30, monthStart |-> 2]}

\* ------------------------------------------------------------- types.ts
INCOME == "INCOME"
EXPENSE == "EXPENSE"

\* constants.ts
INCOME_SOURCES == {"Salary", "Freelance", "Business", "Allowance", "Other"}
EXPENSE_CATEGORIES == {"Food", "Rent", "Utilities", "Transport", "Entertainment", "Other"}

Transaction(id, type, amount, category, date) ==
    [id |-> id, type |-> type, amount |-> amount, category |-> category, date |-> date]

\* What the entry form can submit: Omit<Transaction, 'id' | 'createdAt'>
Entry(ty, a, c, d) == [type |-> ty, amount |-> a, category |-> c, date |-> d]

NewTransactions ==
    { Entry(ty, a, c, d) :
        ty \in {INCOME, EXPENSE}, a \in Amounts, c \in EntryCategories, d \in Dates }

\* The entries of ScoreSpec: an income of this month, a larger one of last
\* month in the category both kinds share, an expense in each of five
\* categories.
ScoreEntries ==
    { Entry(INCOME, 10, "Salary", 2), Entry(INCOME, 40, "Other", 1) }
    \cup { Entry(EXPENSE, 10, c, 2) : c \in EXPENSE_CATEGORIES \ {"Transport"} }

ValidNew(t) ==
    IF t.type = INCOME THEN t.category \in INCOME_SOURCES
    ELSE t.category \in EXPENSE_CATEGORIES

\* ------------------------------------------------------- JavaScript values
Str(s, c, n) == [s |-> s, c |-> c, n |-> n]
Lit(s) == Str(s, "", <<>>)

\* A value of JSON / of a field of AIInsight: t is its JavaScript type.
JUndefined == [t |-> "undefined", str |-> Lit(""), num |-> 0, arr |-> <<>>]
JNull == [t |-> "null", str |-> Lit(""), num |-> 0, arr |-> <<>>]
JString(x) == [t |-> "string", str |-> x, num |-> 0, arr |-> <<>>]
JNumber(k) == [t |-> "number", str |-> Lit(""), num |-> k, arr |-> <<>>]
JArray(a) == [t |-> "array", str |-> Lit(""), num |-> 0, arr |-> a]

\* JavaScript truthiness, as the || of the services reads it.
Truthy(v) ==
    CASE v.t = "undefined" -> FALSE
      [] v.t = "null" -> FALSE
      [] v.t = "string" -> v.str # Lit("")
      [] v.t = "number" -> v.num # 0
      [] OTHER -> TRUE

\* a || b
OrElse(a, b) == IF Truthy(a) THEN a ELSE b

AIInsight(analysis, forecast, recommendations, healthScore, savingsPotential) ==
    [analysis |-> analysis, forecast |-> forecast, recommendations |-> recommendations,
     healthScore |-> healthScore, savingsPotential |-> savingsPotential]

\* ---------------------------------------------------------------- numbers
Min(a, b) == IF a < b THEN a ELSE b
Max(a, b) == IF a > b THEN a ELSE b

\* Math.round of the fraction n/d (d > 0): the nearest integer, halves up.
RoundFrac(n, d) == (2 * n + d) \div (2 * d)

RECURSIVE SumAmounts(_)
SumAmounts(s) == IF s = <<>> THEN 0 ELSE Head(s).amount + SumAmounts(Tail(s))

\* A filter that lets every record through; the totals of C16 do not hold
\* of it.
OfType_unfiltered(txs, ty) == txs

OfType(txs, ty) == SelectSeq(txs, LAMBDA t : t.type = ty)

\* -------------------------------------------- Analytics: chartData (useMemo)
\* A catMap whose set overwrites the category's amount instead of adding to
\* it; the category sums of C17 do not hold of it.
RECURSIVE CatMap_overwrite(_, _)
CatMap_overwrite(es, acc) ==
    IF es = <<>> THEN acc
    ELSE LET e == Head(es)
             hit == { i \in 1..Len(acc) : acc[i].name = e.category }
         IN  IF hit = {}
             THEN CatMap_overwrite(Tail(es),
                                   Append(acc, [name |-> e.category, value |-> e.amount]))
             ELSE LET i == CHOOSE j \in hit : TRUE
                  IN  CatMap_overwrite(Tail(es),
                          [acc EXCEPT ![i] = [name |-> e.category, value |-> e.amount]])

\* catMap: a Map keeps its keys in the order of their first insertion.
RECURSIVE CatMap(_, _)
CatMap(es, acc) ==
    IF es = <<>> THEN acc
    ELSE LET e == Head(es)
             hit == { i \in 1..Len(acc) : acc[i].name = e.category }
         IN  IF hit = {}
             THEN CatMap(Tail(es), Append(acc, [name |-> e.category, value |-> e.amount]))
             ELSE LET i == CHOOSE j \in hit : TRUE
                  IN  CatMap(Tail(es),
                             [acc EXCEPT ![i] = [name |-> e.category,
                                                 value |-> acc[i].value + e.amount]])

\* Array.prototype.sort((a, b) => b.value - a.value): stable, largest first.
RECURSIVE InsertByValue(_, _)
InsertByValue(sorted, x) ==
    IF sorted = <<>> THEN <<x>>
    ELSE IF x.value > Head(sorted).value THEN <<x>> \o sorted
    ELSE <<Head(sorted)>> \o InsertByValue(Tail(sorted), x)

RECURSIVE SortByValue(_, _)
SortByValue(list, acc) ==
    IF list = <<>> THEN acc ELSE SortByValue(Tail(list), InsertByValue(acc, Head(list)))

\* null for the empty list, else {income, expense, categories}; <<>> is null.
chartData(txs) ==
    IF Len(txs) = 0 THEN <<>>
    ELSE << [income |-> SumAmounts(OfType(txs, INCOME)),
             expense |-> SumAmounts(OfType(txs, EXPENSE)),
             categories |-> SortByValue(CatMap(OfType(txs, EXPENSE), <<>>), <<>>)] >>

\* --------------------------------------------- Analytics: insights (useMemo)
\* A savings rate that guards the division with Math.max(1, income) instead
\* of the conditional; the zero rate of C15 does not hold of it.
savingsRate_floored(income, expense) == <<(income - expense) * 100, Max(1, income)>>

\* income > 0 ? ((income - expense) / income) * 100 : 0, as a fraction
savingsRate(income, expense) ==
    IF income > 0 THEN <<(income - expense) * 100, income>> ELSE <<0, 1>>

\* Math.min(100, Math.max(0, x)) of the fraction x
Clamp100(x) ==
    IF x[1] < 0 THEN <<0, 1>>
    ELSE IF x[1] > 100 * x[2] THEN <<100, 1>>
    ELSE x

CategoryBonusOver == 4
NegativeBalanceScore == 30

\* healthScore with both Math.min(100, ...) and Math.max(0, ...) left out; the
\* range of C6 does not hold of it.
healthScoreOf_unclamped(income, expense, categories) ==
    LET sr == savingsRate(income, expense)
        h0 == <<sr[1] + 20 * sr[2], sr[2]>>
        h1 == IF expense > income THEN <<NegativeBalanceScore, 1>> ELSE h0
        h2 == IF Len(categories) > CategoryBonusOver
              THEN <<h1[1] + 10 * h1[2], h1[2]>> ELSE h1
    IN  RoundFrac(h2[1], h2[2])

\* 1. Health Score Calculation
healthScoreOf(income, expense, categories) ==
    LET sr == savingsRate(income, expense)
        h0 == Clamp100(<<sr[1] + 20 * sr[2], sr[2]>>)
        h1 == IF expense > income THEN <<NegativeBalanceScore, 1>> ELSE h0
        h2 == IF Len(categories) > CategoryBonusOver
              THEN <<h1[1] + 10 * h1[2], h1[2]>> ELSE h1
    IN  Min(100, RoundFrac(h2[1], h2[2]))

topCategoryOf(categories) ==
    IF Len(categories) > 0 THEN categories[1].name ELSE "N/A"

topCatRatioOf(expense, categories) ==
    IF expense > 0
    THEN <<(IF Len(categories) > 0 THEN categories[1].value ELSE 0) * 100, expense>>
    ELSE <<0, 1>>

\* 2. Dynamic Analysis; toFixed(1) prints tenths, toFixed(0) units
analysisOf(income, expense, categories) ==
    LET sr == savingsRate(income, expense)
        r == topCatRatioOf(expense, categories)
    IN  IF expense > income
        THEN Str("Your spending currently exceeds your income by", "", <<expense - income>>)
        ELSE Str("You are successfully saving", topCategoryOf(categories),
                 <<RoundFrac(sr[1] * 10, sr[2]), RoundFrac(r[1], r[2])>>)

\* 3. Forecasting (Linear Projection); toLocaleString prints thousandths
forecastOf(expense, count, now) ==
    LET divisor == Max(1, IF count > 5 THEN now.day ELSE 1)
    IN  Str("Based on your current burn rate", "",
            <<RoundFrac(expense * now.dim * 1000, divisor)>>)

\* 4. Rule-based Recommendations
recsOf(income, expense, categories) ==
    LET sr == savingsRate(income, expense)
        r == topCatRatioOf(expense, categories)
        r1 == IF r[1] > 35 * r[2]
              THEN <<Str("High concentration in", topCategoryOf(categories), <<expense * 25>>)>>
              ELSE <<>>
        r2 == IF sr[1] < 20 * sr[2]
              THEN Append(r1, Lit("Try the 50/30/20 rule"))
              ELSE r1
        r3 == IF income = 0
              THEN Append(r2, Lit("Focus on logging your income sources"))
              ELSE r2
        r4 == IF Len(r3) < 3
              THEN Append(r3, Lit("Maintain a 3-month emergency fund"))
              ELSE r3
    IN  SubSeq(r4, 1, Min(3, Len(r4)))

\* 5. Savings Potential: (expense * 0.1) as PHP currency, in centavos
potentialOf(expense) == Str("PHP", "", <<expense * 10>>)

\* The local insight: null (<<>>) for the empty list, else one AIInsight.
insights(txs, now) ==
    LET cd == chartData(txs)
    IN  IF cd = <<>> \/ Len(txs) = 0 THEN <<>>
        ELSE LET income == cd[1].income
                 expense == cd[1].expense
                 categories == cd[1].categories
             IN  << AIInsight(JString(analysisOf(income, expense, categories)),
                              JString(forecastOf(expense, Len(txs), now)),
                              JArray(recsOf(income, expense, categories)),
                              JNumber(healthScoreOf(income, expense, categories)),
                              JString(potentialOf(expense))) >>

\* ------------------------------- unnamed/part_011: data (useMemo), lines 15-73
part011_base == 70

part011_healthScore(income, expense) ==
    LET sr == savingsRate(income, expense)
        h == IF income > 0
             THEN IF sr[1] > 20 * sr[2] THEN part011_base + 20
                  ELSE IF sr[1] > 10 * sr[2] THEN part011_base + 10
                  ELSE IF sr[1] < 0 THEN part011_base - 30
                  ELSE part011_base
             ELSE IF expense > 0 THEN 20
             ELSE part011_base
    IN  Min(100, Max(0, h))

\* catMap.get(name) || 0
CatTotal(txs, name) ==
    SumAmounts(SelectSeq(txs, LAMBDA t : t.type = EXPENSE /\ t.category = name))

\* 10% of Food, 25% of Entertainment, 15% of Other, in centavos
part011_potential(txs) ==
    CatTotal(txs, "Food") * 10 + CatTotal(txs, "Entertainment") * 25
    + CatTotal(txs, "Other") * 15

part011_analysis(income, expense) ==
    IF expense > income /\ income > 0
    THEN Lit("Your spending exceeds your income.")
    ELSE IF income > 0 /\ (income - expense) * 10 > 3 * income
    THEN Lit("Excellent wealth accumulation.")
    ELSE Lit("Your financial profile shows consistent activity.")

part011_recs ==
    <<Lit("Set aside 20% of your next income for an emergency fund."),
      Lit("Review 'Entertainment' subscriptions to identify unused services."),
      Lit("Use the 50/30/20 rule: 50% Needs, 30% Wants, 20% Savings.")>>

part011_data(txs) ==
    IF Len(txs) = 0 THEN <<>>
    ELSE LET income == SumAmounts(OfType(txs, INCOME))
             expense == SumAmounts(OfType(txs, EXPENSE))
         IN  << AIInsight(JString(part011_analysis(income, expense)),
                          JString(Str("net position of", "", <<income - expense>>)),
                          JArray(part011_recs),
                          JNumber(part011_healthScore(income, expense)),
                          JString(Str("PHP", "", <<part011_potential(txs)>>))) >>

\* --------------------- pages/Analytics.tsx: analyticsData (useMemo), 299-353
flexibleCategories == {"Entertainment", "Other", "Food"}

analyticsData_healthScore(income, expense) ==
    LET sr == savingsRate(income, expense)
    IN  Min(100, Max(0, RoundFrac(sr[1], sr[2])))

analyticsData_flexSpend(txs) ==
    SumAmounts(SelectSeq(txs,
        LAMBDA t : t.type = EXPENSE /\ t.category \in flexibleCategories))

analyticsData_analysis(income, expense, sortedCategories) ==
    LET sr == savingsRate(income, expense)
    IN  IF sr[1] < 0 THEN Lit("Your expenses are outpacing your income.")
        ELSE IF sr[1] > 30 * sr[2] THEN Lit("Exceptional savings rate.")
        ELSE IF Len(sortedCategories) > 0 /\ sortedCategories[1].name = "Food"
                /\ sortedCategories[1].value * 10 > 4 * expense
        THEN Lit("Dining and groceries account for the majority of your outflow.")
        ELSE Lit("Your spending is currently stable.")

analyticsData_recs(income, expense, flexSpend) ==
    LET sr == savingsRate(income, expense)
        r1 == IF sr[1] < 10 * sr[2]
              THEN <<Lit("Build an emergency fund covering 3-6 months of basic needs.")>>
              ELSE <<>>
        r2 == IF flexSpend * 10 > expense * 3
              THEN Append(r1, Lit("Reduce discretionary spending by 10%."))
              ELSE r1
        r3 == IF income > 0
              THEN Append(r2, Lit("Automate a 15% transfer to savings on every payday."))
              ELSE r2
        r4 == IF Len(r3) < 3
              THEN Append(r3, Lit("Review annual insurance and utility plans."))
              ELSE r3
    IN  SubSeq(r4, 1, Min(3, Len(r4)))

analyticsData(txs) ==
    LET income == SumAmounts(OfType(txs, INCOME))
        expense == SumAmounts(OfType(txs, EXPENSE))
        sortedCategories == SortByValue(CatMap(OfType(txs, EXPENSE), <<>>), <<>>)
        flexSpend == analyticsData_flexSpend(txs)
    IN  << AIInsight(JString(analyticsData_analysis(income, expense, sortedCategories)),
                     JString(Str("you will likely save", "", <<Max(0, income - expense)>>)),
                     JArray(analyticsData_recs(income, expense, flexSpend)),
                     JNumber(analyticsData_healthScore(income, expense)),
                     JString(Str("PHP", "", <<flexSpend * 15>>))) >>

\* The tier shown for a score: unnamed/part_012 line 134, part_013 line 117
part012_tier(healthScore) ==
    IF healthScore > 80 THEN "EXPERT" ELSE IF healthScore > 50 THEN "STABLE" ELSE "ACTION REQ."

part013_tier(healthScore) ==
    IF healthScore > 80 THEN "ELITE" ELSE IF healthScore > 60 THEN "STABLE" ELSE "CRITICAL"

\* pages/Analytics.tsx line 440: the rating next to analyticsData.healthScore
analyticsData_tier(txs) ==
    LET sr == savingsRate(SumAmounts(OfType(txs, INCOME)), SumAmounts(OfType(txs, EXPENSE)))
    IN  IF sr[1] > 20 * sr[2] THEN "ELITE" ELSE IF sr[1] > 0 THEN "STABLE" ELSE "CRITICAL"

\* unnamed/part_011 lines 210-215, part_013 lines 16-21: categoryData, the
\* entries of the map as they are
categoryData(txs) == CatMap(OfType(txs, EXPENSE), <<>>)

\* ------------------------------ pages/Dashboard.tsx: monthData, metrics, 22-41
monthData(txs, now) == SelectSeq(txs, LAMBDA t : t.date >= now.monthStart)

\* Number.prototype.toFixed(1) of the fraction x, in tenths
toFixed1(x) ==
    IF x[1] < 0 THEN 0 - RoundFrac((0 - x[1]) * 10, x[2]) ELSE RoundFrac(x[1] * 10, x[2])

metrics(txs, now) ==
    LET month == monthData(txs, now)
        income == SumAmounts(OfType(month, INCOME))
        expenses == SumAmounts(OfType(month, EXPENSE))
    IN  [income |-> income, expenses |-> expenses, balance |-> income - expenses,
         savingsRate |-> toFixed1(savingsRate(income, expenses))]

\* The useMemo values of the Analytics page versions and of the Dashboard, and
\* the tiers rendered from them, for one list.
Analyze(txs, now) ==
    LET local == insights(txs, now)
    IN  [insights |-> local, data |-> part011_data(txs),
         analyticsData |-> analyticsData(txs),
         tier |-> IF local = <<>> THEN "--" ELSE part012_tier(local[1].healthScore.num),
         rating |-> analyticsData_tier(txs),
         categoryData |-> categoryData(txs),
         metrics |-> metrics(txs, now)]

\* ---------------------------------------------------- the remote provider
\* What JSON.parse yields: an object with the five keys (a missing key reads
\* undefined), null, or a value that is no object.
EmptyObject == AIInsight(JUndefined, JUndefined, JUndefined, JUndefined, JUndefined)
PObject(o) == [t |-> "object", obj |-> o]
PNull == [t |-> "null", obj |-> EmptyObject]
POther == [t |-> "other", obj |-> EmptyObject]

RemoteRecs == <<Lit("remote tip 1"), Lit("remote tip 2"), Lit("remote tip 3")>>
RemoteValid ==
    AIInsight(JString(Lit("remote analysis")), JString(Lit("remote forecast")),
              JArray(RemoteRecs), JNumber(75), JString(Lit("remote potential")))

RemoteOutOfRange == [RemoteValid EXCEPT !.healthScore = JNumber(500)]

\* The bodies a provider can answer with, parsed.
ParsedBodies ==
    { PObject(RemoteValid),
      PObject(RemoteOutOfRange),
      PObject([RemoteValid EXCEPT !.recommendations = JUndefined]),
      PObject([RemoteValid EXCEPT !.recommendations = JString(Lit("one tip"))]),
      PObject([RemoteValid EXCEPT !.recommendations = JArray(SubSeq(RemoteRecs, 1, 2))]),
      PNull }

\* The messages of the errors generateContent rejects with.
ErrorMessages ==
    { "403 PERMISSION_DENIED", "429 RESOURCE_EXHAUSTED", "400 API_KEY_INVALID",
      "Failed to fetch" }

\* String.prototype.includes, for the substrings the services look for.
Includes(msg, sub) ==
    CASE sub = "403" -> msg = "403 PERMISSION_DENIED"
      [] sub = "401" -> msg = "401 UNAUTHENTICATED"
      [] sub = "429" -> msg = "429 RESOURCE_EXHAUSTED"
      [] sub = "API_KEY_INVALID" -> msg = "400 API_KEY_INVALID"
      [] sub = "API Key must be set" -> msg = "An API Key must be set when running in a browser"
      [] OTHER -> FALSE

\* An answer of generateContent: resolved with a text, or rejected.
Resolved(text, parsed) == [ok |-> TRUE, text |-> text, parsed |-> parsed, message |-> ""]
Rejected(message) == [ok |-> FALSE, text |-> "", parsed |-> PNull, message |-> message]
NoReply == [ok |-> FALSE, text |-> "", parsed |-> PNull, message |-> "(none)"]

Replies ==
    { Resolved("json", b) : b \in ParsedBodies }
    \cup { Resolved("empty", PNull), Resolved("malformed", PNull) }
    \cup { Rejected(m) : m \in ErrorMessages }

\* ------------------------------------------------ results of a service call
\* A step of getFinancialInsights ends by returning a value, by throwing (the
\* promise rejects) or by awaiting generateContent with a payload.
NoValue == PObject(EmptyObject)
Returns(v) == [kind |-> "returned", value |-> v, message |-> "", payload |-> <<>>]
Throws(m) == [kind |-> "threw", value |-> NoValue, message |-> m, payload |-> <<>>]
Calls(payload) == [kind |-> "call", value |-> NoValue, message |-> "", payload |-> payload]

PesoZero == JString(Str("PHP", "", <<0>>))

\* Array.prototype.slice(0, n)
Slice(s, n) == SubSeq(s, 1, Min(n, Len(s)))

\* transactions.map(t => ({date, type, amount, category}))
Shape(txs) ==
    [i \in 1..Len(txs) |->
        [date |-> txs[i].date, type |-> txs[i].type,
         amount |-> txs[i].amount, category |-> txs[i].category]]

\* What the try block throws given the provider's answer ("" when nothing):
\* the rejection itself, the service's own error for an empty text, the
\* SyntaxError of JSON.parse.
ThrownInTry(reply, emptyMessage) ==
    IF ~reply.ok THEN reply.message
    ELSE IF reply.text = "empty" THEN emptyMessage
    ELSE IF reply.text = "malformed" THEN "SyntaxError: Unexpected token"
    ELSE ""

\* ------------------------------------------- services/geminiService.ts
geminiService_noKey ==
    PObject(AIInsight(
        JString(Lit("API Key not found. Please set the API_KEY environment variable.")),
        JString(Lit("Unavailable")),
        JArray(<<Lit("Ensure your environment variables are configured correctly.")>>),
        JNumber(0), PesoZero))

geminiService_fallback ==
    PObject(AIInsight(
        JString(Lit("Unable to generate AI analysis at this time.")),
        JString(Lit("Projections currently unavailable.")),
        JArray(<<Lit("Maintain consistent tracking."), Lit("Review high-cost categories."),
                 Lit("Target a 20% savings rate.")>>),
        JNumber(0), PesoZero))

\* lines 10-45: up to the await
geminiService_start(apiKey, txs) ==
    IF apiKey = "" THEN {Returns(geminiService_noKey)}
    ELSE {Calls(Shape(txs))}

\* lines 86-96: the fields of the parsed answer, each with its default
geminiService_fields(parsed) ==
    PObject(AIInsight(
        OrElse(parsed.obj.analysis, JString(Lit("Analysis pending."))),
        OrElse(parsed.obj.forecast, JString(Lit("Forecast pending."))),
        OrElse(parsed.obj.recommendations, JArray(<<>>)),
        OrElse(parsed.obj.healthScore, JNumber(50)),
        OrElse(parsed.obj.savingsPotential, PesoZero)))

\* A catch block that calls the provider again when it was rate-limited; the
\* single call of C9 does not hold of it.
geminiService_catch_retry(message) ==
    IF Includes(message, "429") THEN Calls(<<>>) ELSE Returns(geminiService_fallback)

\* lines 97-110: the catch block
geminiService_catch(message) == Returns(geminiService_fallback)

\* lines 84-110: after the await
geminiService_resume(reply) ==
    LET thrown == ThrownInTry(reply, "No text returned from Gemini API")
    IN  IF thrown # "" THEN geminiService_catch(thrown)
        ELSE IF reply.parsed.t = "null"
        THEN geminiService_catch("TypeError: Cannot read properties of null")
        ELSE Returns(geminiService_fields(reply.parsed))

\* --------------------------------------------------- unnamed/part_000
part000_cap == 50

\* lines 5-26: up to the await
part000_start(apiKey, txs) ==
    IF apiKey = "" THEN {Throws("API_KEY_REQUIRED")}
    ELSE IF Len(txs) = 0 THEN {Throws("No data available to analyze.")}
    ELSE {Calls(Shape(Slice(txs, part000_cap)))}

\* lines 66-76: the catch block
part000_catch(message) ==
    IF Includes(message, "API Key must be set") \/ Includes(message, "403")
       \/ Includes(message, "401")
    THEN Throws("API_KEY_REQUIRED")
    ELSE Throws("Analysis failed. Please try again later.")

\* lines 39-76: after the await
part000_resume(reply) ==
    LET thrown == ThrownInTry(reply, "Empty response from analysis engine.")
    IN  IF thrown # "" THEN part000_catch(thrown)
        ELSE Returns(reply.parsed)

\* ------------------------------------------ unnamed/part_001, lines 94-160
part001_cap == 40

\* new GoogleGenAI({apiKey}) with no key: the browser build of the SDK throws,
\* the node build constructs a client whose calls are refused.
GoogleGenAI(apiKey) ==
    IF apiKey = "" THEN {"An API Key must be set when running in a browser", ""}
    ELSE {""}

\* lines 94-109: up to the await
part001_start(apiKey, txs) ==
    { IF ctor # "" THEN Throws(ctor)
      ELSE IF Len(txs) = 0 THEN Throws("No transactions to analyze.")
      ELSE Calls(Shape(Slice(txs, part001_cap))) : ctor \in GoogleGenAI(apiKey) }

\* lines 150-159: the catch block
part001_catch(message) ==
    IF Includes(message, "403")
    THEN Throws("API access denied. Please check project billing and key permissions.")
    ELSE IF Includes(message, "429")
    THEN Throws("AI is busy right now (Rate Limit). Please try again in 30 seconds.")
    ELSE IF Includes(message, "API_KEY_INVALID")
    THEN Throws("The provided API Key is invalid.")
    ELSE Throws(message)

\* lines 121-159: after the await
part001_resume(reply) ==
    LET thrown == ThrownInTry(reply, "The AI returned an empty response.")
    IN  IF thrown # "" THEN part001_catch(thrown)
        ELSE Returns(reply.parsed)

\* --------------------------------------------------- unnamed/part_002
part002_noKey ==
    PObject(AIInsight(
        JString(Lit("AI Audit unavailable. API Key not found in environment.")),
        JString(Lit("Projections paused.")),
        JArray(<<Lit("Configure Gemini API Key to enable insights.")>>),
        JNumber(0), PesoZero))

part002_fallback ==
    PObject(AIInsight(
        JString(Lit("AI Analytics are currently unavailable.")),
        JString(Lit("Unable to generate forecast.")),
        JArray(<<Lit("Track daily food/transpo costs."), Lit("Review monthly subscriptions."),
                 Lit("Save at least 10% of gross income.")>>),
        JNumber(0), PesoZero))

\* lines 4-31: up to the await
part002_start(apiKey, txs) ==
    IF apiKey = "" THEN {Returns(part002_noKey)}
    ELSE {Calls(Shape(txs))}

\* lines 61-68; healthScore: Math.min(100, Math.max(0, parsed.healthScore || 50))
part002_fields(parsed) ==
    PObject(AIInsight(
        OrElse(parsed.obj.analysis, JString(Lit("Audit successful."))),
        OrElse(parsed.obj.forecast, JString(Lit("Status quo expected."))),
        OrElse(parsed.obj.recommendations, JArray(<<>>)),
        JNumber(Min(100, Max(0, OrElse(parsed.obj.healthScore, JNumber(50)).num))),
        OrElse(parsed.obj.savingsPotential, PesoZero)))

\* lines 69-78: the catch block
part002_catch(message) == Returns(part002_fallback)

\* lines 33-78: after the await
part002_resume(reply) ==
    LET thrown == ThrownInTry(reply, "Empty AI response")
    IN  IF thrown # "" THEN part002_catch(thrown)
        ELSE IF reply.parsed.t = "null"
        THEN part002_catch("TypeError: Cannot read properties of null")
        ELSE Returns(part002_fields(reply.parsed))

\* ------------------------------------------------- the versions, by name
Variants == {"geminiService", "part_000", "part_001", "part_002"}

getFinancialInsights_start(v, apiKey, txs) ==
    CASE v = "geminiService" -> geminiService_start(apiKey, txs)
      [] v = "part_000" -> part000_start(apiKey, txs)
      [] v = "part_001" -> part001_start(apiKey, txs)
      [] v = "part_002" -> part002_start(apiKey, txs)

getFinancialInsights_resume(v, reply) ==
    CASE v = "geminiService" -> geminiService_resume(reply)
      [] v = "part_000" -> part000_resume(reply)
      [] v = "part_001" -> part001_resume(reply)
      [] v = "part_002" -> part002_resume(reply)

\* ======================================================== the environment
\* The places a build keeps a variable: the global process.env (window.process
\* in a browser) and import.meta.env.  A source is there or not; the value of
\* the variable looked up is <<>> (undefined), <<"">> or a non-empty string,
\* "P" in process.env and "M" in import.meta.env.
EnvValues(v) == {<<>>, <<"">>, <<v>>}

Environments ==
    { e \in [window : BOOLEAN,
             process : {"undefined", "noenv", "env"}, penv : EnvValues("P"),
             meta : {"noenv", "env"}, menv : EnvValues("M")] :
        /\ e.process # "env" => e.penv = <<>>
        /\ e.meta # "env" => e.menv = <<>> }

\* JavaScript truthiness of string | undefined
TruthyValue(v) == v # <<>> /\ v # <<"">>

Found(v) == [threw |-> FALSE, value |-> v]
ReferenceError == [threw |-> TRUE, value |-> <<>>]

\* unnamed/part_007, getEnv: g.process is window.process or globalThis.process
part007_getEnv(e) ==
    IF e.process = "env" THEN Found(e.penv)
    ELSE IF e.meta = "env" THEN Found(e.menv)
    ELSE Found(<<>>)

\* lib/supabase.ts, getEnvVar: a || b || c, then val || ''
getEnvVar(e) ==
    LET a == IF e.process = "env" THEN e.penv ELSE <<>>
        b == IF e.window /\ e.process = "env" THEN e.penv ELSE <<>>
        c == IF e.meta = "env" THEN e.menv ELSE <<>>
        val == IF TruthyValue(a) THEN a ELSE IF TruthyValue(b) THEN b ELSE c
    IN  Found(IF TruthyValue(val) THEN val ELSE <<"">>)

\* lib/supabase.ts, the later getEnv
supabase_getEnv(e) ==
    IF e.process = "env" /\ TruthyValue(e.penv) THEN Found(e.penv)
    ELSE IF e.meta = "env" /\ TruthyValue(e.menv) THEN Found(e.menv)
    ELSE Found(<<>>)

Resolvers == {"part007_getEnv", "getEnvVar", "supabase_getEnv"}

getEnv(f, e) ==
    CASE f = "part007_getEnv" -> part007_getEnv(e)
      [] f = "getEnvVar" -> getEnvVar(e)
      [] f = "supabase_getEnv" -> supabase_getEnv(e)

\* process.env.API_KEY read as written: a ReferenceError without a global
\* process, a TypeError without process.env
process_env_API_KEY(e) ==
    IF e.process = "env" THEN Found(e.penv) ELSE ReferenceError

\* typeof process !== 'undefined' && process.env ? process.env.API_KEY : undefined
guarded_API_KEY(e) ==
    IF e.process = "env" THEN Found(e.penv) ELSE Found(<<>>)

\* The read of the credential in each version of the service.
CredentialReaders == {"geminiService", "part_000", "part_001", "part_002"}

readApiKey(v, e) ==
    CASE v = "geminiService" -> process_env_API_KEY(e)
      [] v = "part_000" -> process_env_API_KEY(e)
      [] v = "part_001" -> guarded_API_KEY(e)
      [] v = "part_002" -> guarded_API_KEY(e)

\* ================================================= the entry form (drafts)
MaxDrafts == 2       \* rows of the multi-row form

\* what the user can type into the number input, pick in the select
AmountInputs == {"", "0", "10"}
CategoryPicks == EntryCategories \cup {"Other"}

\* parseFloat of the value of a number input; <<>> is NaN
parseFloat(str) ==
    CASE str = "10" -> <<10>>
      [] str = "0" -> <<0>>
      [] OTHER -> <<>>

\* the options the category select renders for a type
Options(type) == IF type = INCOME THEN INCOME_SOURCES ELSE EXPENSE_CATEGORIES

\* INCOME_SOURCES[0], EXPENSE_CATEGORIES[0]
FirstOption(type) == IF type = INCOME THEN "Salary" ELSE "Food"

handleTypeChange_kept(d, newType) == [d EXCEPT !.type = newType]

\* part_009 lines 39-42
handleTypeChange(d, newType) ==
    [d EXCEPT !.type = newType, !.category = FirstOption(newType)]

\* part_008 lines 59-70 on the draft of the tempId; a field not given is <<>>
updateDraft(d, fields) ==
    LET updated == [type |-> IF fields.type = <<>> THEN d.type ELSE fields.type[1],
                    amount |-> IF fields.amount = <<>> THEN d.amount ELSE fields.amount[1],
                    category |-> IF fields.category = <<>> THEN d.category
                                 ELSE fields.category[1]]
    IN  IF fields.type # <<>> /\ fields.type[1] # d.type
        THEN [updated EXCEPT !.category = FirstOption(fields.type[1])]
        ELSE updated

\* d.amount && parseFloat(d.amount) > 0 (part_008 line 74)
validDraft(d) ==
    d.amount # "" /\ parseFloat(d.amount) # <<>> /\ parseFloat(d.amount)[1] > 0

\* !amount || parseFloat(amount) <= 0 (part_009 line 23): NaN <= 0 is false
rejected(d) ==
    d.amount = "" \/ (parseFloat(d.amount) # <<>> /\ parseFloat(d.amount)[1] <= 0)

\* the record handed to onAdd; the amount of NaN is <<>>
Payload(ds) ==
    [i \in 1..Len(ds) |->
        [type |-> ds[i].type, amount |-> parseFloat(ds[i].amount),
         category |-> ds[i].category]]

\* =================================================================== state
VARIABLES
    variant,        \* which version of services/geminiService is built in
    apiKey,         \* process.env.API_KEY ("" when unset or empty)
    today,          \* new Date()
    user,           \* App: user ("none" is null)
    transactions,   \* App: transactions
    nextId,         \* the id the backend gives the next inserted row
    ops,            \* add/delete handlers run so far
    memo,           \* Analytics (local engines): the useMemo values, <<>> is null
    pc,             \* the insight request: idle, awaiting, replied, done
    reqTxs,         \* the transactions the request was called with
    sent,           \* the payload in flight to the provider
    calls,          \* generateContent calls of the request
    reply,          \* the provider's answer in flight
    outcome,        \* how getFinancialInsights ended
    nreq,           \* fetchAI runs so far
    loading,        \* Analytics: loading
    aiData,         \* Analytics: aiData, <<>> is null
    error,          \* Analytics: error, <<>> is null
    needsKey,       \* Analytics: needsKey
    env,            \* the places the build keeps its variables
    resolved,       \* what the last look-up of a variable gave
    form,           \* Transactions page: which version, isAdding, the drafts
    submitted,      \* the records of the last onAdd call of the open form
    requests,       \* Analytics: the fetchAI runs that may overlap, in issue order
    table,          \* the backend's transactions table for the user
    handlers,       \* App: the calls of its async functions, in issue order
    sessions,       \* sign-ins so far
    boot            \* App: its version, its start-up effect, loading, error

envVars == <<variant, apiKey, today>>
appVars == <<user, transactions, nextId, ops, memo>>
reqVars == <<pc, reqTxs, sent, calls, reply, outcome, nreq>>
uiVars == <<loading, aiData, error, needsKey>>
extVars == <<env, resolved, form, submitted, requests, table, handlers, sessions, boot>>
vars == <<envVars, appVars, reqVars, uiVars, extVars>>

NoOutcome == [kind |-> "none", value |-> NoValue, message |-> "", payload |-> <<>>]

\* The rows the backend can hold for the user, as fetchTransactions reads them:
\* .order('date', {ascending: false}), ids 1..n.
Rows(n) ==
    { r \in [1..n -> { t \in NewTransactions : ValidNew(t) }] :
        \A i \in 1..(n - 1) : r[i].date >= r[i + 1].date }

WithIds(r) ==
    [i \in 1..Len(r) |-> Transaction(i, r[i].type, r[i].amount, r[i].category, r[i].date)]

\* The build in which process.env is there: nothing looked up yet.
NotResolved == [by |-> "none", threw |-> FALSE, value |-> <<>>]

DefaultEnvironment ==
    [window |-> TRUE, process |-> "env", penv |-> <<>>, meta |-> "env", menv |-> <<>>]

InitEnvironment ==
    /\ env = DefaultEnvironment
    /\ resolved = NotResolved

\* useState of the Transactions page (part_009 lines 14-17, part_008 23-24);
\* the single form of part_009 is one draft that stays.
NewDraft == [type |-> EXPENSE, amount |-> "", category |-> "Food"]

ClosedForm(page) ==
    [page |-> page, isAdding |-> FALSE,
     drafts |-> IF page = "part_009" THEN <<NewDraft>> ELSE <<>>]

InitForm ==
    /\ form = ClosedForm("part_009")
    /\ submitted = <<>>

InitPage ==
    /\ variant \in Variants
    /\ apiKey \in {"", "KEY"}
    /\ today \in Todays
    /\ user = "none"
    /\ transactions = <<>>
    /\ nextId = 1
    /\ ops = 0
    /\ memo = Analyze(<<>>, today)
    /\ pc = "idle"
    /\ reqTxs = <<>>
    /\ sent = <<>>
    /\ calls = 0
    /\ reply = NoReply
    /\ outcome = NoOutcome
    /\ nreq = 0
    /\ loading = FALSE
    /\ aiData = <<>>
    /\ error = <<>>
    /\ needsKey = FALSE

\* The backend holds one row of the user, entered in an earlier session.
StoredRow == Transaction(0, INCOME, 10, "Salary", 2)

InitBackend ==
    /\ table = <<StoredRow>>
    /\ handlers = <<>>
    /\ sessions = 0

\* App after its start-up effect has run to its end
Started(version, configured) ==
    [version |-> version, configured |-> configured, pc |-> "ended",
     timer |-> "off", loading |-> FALSE, error |-> FALSE]

Init ==
    /\ InitPage /\ InitEnvironment /\ InitForm /\ requests = <<>> /\ InitBackend
    /\ boot = Started("App", TRUE)

\* --------------------------------------------------------------- App.tsx
\* onAuthStateChange with a session: fetchUserProfile sets user, whose effect
\* runs fetchTransactions (lines 34-98) and sets transactions to the rows read.
LoadRows(rows) ==
    /\ user = "none"
    /\ user' = "u1"
    /\ transactions' = WithIds(rows)
    /\ nextId' = Len(rows) + 1
    /\ memo' = Analyze(WithIds(rows), today)
    /\ UNCHANGED <<ops, envVars, reqVars, uiVars, extVars>>

fetchTransactions == \E n \in 0..MaxLen : \E r \in Rows(n) : LoadRows(r)

\* The same, for a user with a long history: as many rows as the larger cut
\* of a payload, all of the latest date.
ManyRows ==
    { [i \in 1..n |-> Entry(EXPENSE, 10, "Food", 2)] : n \in {Max(part001_cap, part000_cap)} }

fetchManyTransactions == \E r \in ManyRows : LoadRows(r)

\* setTransactions([newT, ...transactions]) (line 145)
Prepend(newT, txs) == <<newT>> \o txs

\* lines 118-147; the backend answers with the row or with an error
AddTransaction(t, backendOk) ==
    /\ user # "none"
    /\ IF backendOk
       THEN LET newT == Transaction(nextId, t.type, t.amount, t.category, t.date)
            IN  /\ transactions' = Prepend(newT, transactions)
                /\ nextId' = nextId + 1
                /\ memo' = Analyze(Prepend(newT, transactions), today)
       ELSE UNCHANGED <<transactions, nextId, memo>>
    /\ UNCHANGED <<user, envVars, reqVars, uiVars, extVars>>

handleAddTransaction ==
    /\ ops < MaxOps
    /\ ops' = ops + 1
    /\ \E t \in NewTransactions : \E backendOk \in BOOLEAN :
        ValidNew(t) /\ AddTransaction(t, backendOk)

\* The same handler on the entries of ScoreSpec, the backend accepting each.
enterTransaction ==
    /\ Len(transactions) < MaxScoreLen
    /\ UNCHANGED ops
    /\ \E t \in ScoreEntries : ValidNew(t) /\ AddTransaction(t, TRUE)

\* transactions.filter(t => t.id !== id) (line 156)
Without(id, txs) == SelectSeq(txs, LAMBDA t : t.id # id)

\* lines 149-158
handleDeleteTransaction ==
    /\ ops < MaxOps
    /\ ops' = ops + 1
    /\ \E i \in 1..Len(transactions) : \E backendOk \in BOOLEAN :
        IF backendOk
        THEN /\ transactions' = Without(transactions[i].id, transactions)
             /\ memo' = Analyze(Without(transactions[i].id, transactions), today)
        ELSE UNCHANGED <<transactions, memo>>
    /\ UNCHANGED <<user, nextId, envVars, reqVars, uiVars, extVars>>

\* ------------------------------------------- pages/Analytics.tsx: fetchAI
\* lines 42-53: what fetchAI does with the way getFinancialInsights ended
Settle(r) ==
    /\ outcome' = r
    /\ pc' = "done"
    /\ loading' = FALSE
    /\ IF r.kind = "returned"
       THEN /\ aiData' = <<r.value>>
            /\ UNCHANGED <<error, needsKey>>
       ELSE IF r.message = "API_KEY_REQUIRED"
       THEN /\ needsKey' = TRUE
            /\ UNCHANGED <<aiData, error>>
       ELSE /\ error' = <<r.message>>
            /\ UNCHANGED <<aiData, needsKey>>

\* lines 36-43: fetchAI up to the await of the provider (the effect on mount,
\* the refresh and retry buttons); a request starts when none is in flight.
fetchAI ==
    /\ user # "none"
    /\ pc \in {"idle", "done"}
    /\ nreq < MaxRequests
    /\ Len(transactions) # 0
    /\ nreq' = nreq + 1
    /\ reqTxs' = transactions
    /\ reply' = NoReply
    /\ \E r \in getFinancialInsights_start(variant, apiKey, transactions) :
        IF r.kind = "call"
        THEN /\ pc' = "awaiting"
             /\ sent' = r.payload
             /\ calls' = 1
             /\ outcome' = NoOutcome
             /\ loading' = TRUE
             /\ error' = <<>>
             /\ needsKey' = FALSE
             /\ UNCHANGED aiData
        ELSE /\ sent' = <<>>
             /\ calls' = 0
             /\ outcome' = r
             /\ pc' = "done"
             /\ loading' = FALSE
             /\ IF r.kind = "returned"
                THEN /\ aiData' = <<r.value>>
                     /\ error' = <<>>
                     /\ needsKey' = FALSE
                ELSE IF r.message = "API_KEY_REQUIRED"
                THEN /\ needsKey' = TRUE
                     /\ error' = <<>>
                     /\ UNCHANGED aiData
                ELSE /\ error' = <<r.message>>
                     /\ needsKey' = FALSE
                     /\ UNCHANGED aiData
    /\ UNCHANGED <<envVars, appVars, extVars>>

\* The provider answers the call in flight (it need not).
ProviderReplies ==
    /\ pc = "awaiting"
    /\ \E rep \in Replies : reply' = rep
    /\ pc' = "replied"
    /\ UNCHANGED <<envVars, appVars, uiVars, extVars, reqTxs, sent, calls, outcome, nreq>>

\* The continuation of the await: the rest of getFinancialInsights, then the
\* rest of fetchAI.
Resume ==
    /\ pc = "replied"
    /\ LET r == getFinancialInsights_resume(variant, reply)
       IN  IF r.kind = "call"
           THEN /\ pc' = "awaiting"
                /\ sent' = r.payload
                /\ calls' = calls + 1
                /\ UNCHANGED <<outcome, uiVars>>
           ELSE /\ Settle(r)
                /\ UNCHANGED <<sent, calls>>
    /\ UNCHANGED <<envVars, appVars, extVars, reqTxs, reply, nreq>>

\* The Analytics page on the transactions as loaded.
Next ==
    \/ fetchTransactions
    \/ fetchAI
    \/ ProviderReplies
    \/ Resume

Spec == Init /\ [][Next]_vars

\* The App with its add and delete handlers, for a user with a long history.
NextApp ==
    \/ fetchManyTransactions
    \/ handleAddTransaction
    \/ handleDeleteTransaction
    \/ fetchAI
    \/ ProviderReplies
    \/ Resume

AppSpec == Init /\ [][NextApp]_vars

\* The continuation of an answered await always runs; nothing makes the
\* provider answer.
FairSpec == Spec /\ WF_vars(Resume)

\* The local engines on every list a signed-in user can enter, whatever the
\* service built in.
InitScore == Init /\ variant = "geminiService" /\ apiKey = "KEY"

NextScore ==
    \/ LoadRows(<<>>)
    \/ enterTransaction

ScoreSpec == InitScore /\ [][NextScore]_vars

\* ------------------------------------------------- module load, key look-up
\* lib/supabase.ts and unnamed/part_007 at load: getEnv('SUPABASE_URL')
loadSupabase ==
    /\ \E f \in Resolvers :
        resolved' = [by |-> f, threw |-> getEnv(f, env).threw, value |-> getEnv(f, env).value]
    /\ UNCHANGED <<env, form, submitted, requests, table, handlers, sessions, boot>>
    /\ UNCHANGED <<envVars, appVars, reqVars, uiVars>>

\* the first statement of getFinancialInsights
resolveApiKey ==
    /\ \E v \in CredentialReaders :
        resolved' = [by |-> v, threw |-> readApiKey(v, env).threw,
                     value |-> readApiKey(v, env).value]
    /\ UNCHANGED <<env, form, submitted, requests, table, handlers, sessions, boot>>
    /\ UNCHANGED <<envVars, appVars, reqVars, uiVars>>

InitEnv ==
    /\ InitPage /\ variant = "geminiService" /\ apiKey = "KEY"
    /\ env \in Environments
    /\ resolved = NotResolved
    /\ InitForm
    /\ requests = <<>>
    /\ InitBackend
    /\ boot = Started("App", TRUE)

NextEnv ==
    \/ loadSupabase
    \/ resolveApiKey

\* Every environment a build can run in, each look-up in it.
EnvSpec == InitEnv /\ [][NextEnv]_vars

\* ------------------------------------------------- the Transactions page
FormUnchanged ==
    UNCHANGED <<env, resolved, requests, table, handlers, sessions, boot,
                envVars, appVars, reqVars, uiVars>>

\* part_009 line 97: setIsAdding(!isAdding); opening starts a new record of
\* what the form hands to onAdd
part009_toggle ==
    /\ form.page = "part_009"
    /\ form' = [form EXCEPT !.isAdding = ~form.isAdding]
    /\ submitted' = IF form.isAdding THEN submitted ELSE <<>>
    /\ FormUnchanged

\* part_009: the type buttons, the amount input, the category select
part009_edit ==
    /\ form.page = "part_009" /\ form.isAdding
    /\ LET d == form.drafts[1]
       IN  \/ \E ty \in {INCOME, EXPENSE} :
                form' = [form EXCEPT !.drafts = <<handleTypeChange(d, ty)>>]
           \/ \E a \in AmountInputs :
                form' = [form EXCEPT !.drafts = <<[d EXCEPT !.amount = a]>>]
           \/ \E c \in Options(d.type) \cap CategoryPicks :
                form' = [form EXCEPT !.drafts = <<[d EXCEPT !.category = c]>>]
    /\ UNCHANGED submitted
    /\ FormUnchanged

\* part_009 lines 21-37
part009_handleSubmit ==
    /\ form.page = "part_009" /\ form.isAdding
    /\ IF rejected(form.drafts[1])
       THEN UNCHANGED <<form, submitted>>
       ELSE /\ submitted' = Payload(form.drafts)
            /\ form' = [form EXCEPT !.isAdding = FALSE,
                                    !.drafts = <<[form.drafts[1] EXCEPT !.amount = ""]>>]
    /\ FormUnchanged

\* part_008 lines 27-37
part008_startAdding ==
    /\ form.page = "part_008" /\ ~form.isAdding
    /\ form' = [form EXCEPT !.isAdding = TRUE, !.drafts = <<NewDraft>>]
    /\ submitted' = <<>>
    /\ FormUnchanged

\* part_008 lines 39-48
part008_addRow ==
    /\ form.page = "part_008" /\ form.isAdding
    /\ Len(form.drafts) < MaxDrafts
    /\ form' = [form EXCEPT !.drafts = Append(form.drafts, NewDraft)]
    /\ UNCHANGED submitted
    /\ FormUnchanged

\* part_008 lines 50-57
part008_removeRow ==
    /\ form.page = "part_008" /\ form.isAdding
    /\ \E i \in 1..Len(form.drafts) :
        form' = IF Len(form.drafts) = 1
                THEN [form EXCEPT !.isAdding = FALSE, !.drafts = <<>>]
                ELSE [form EXCEPT !.drafts =
                        [j \in 1..(Len(form.drafts) - 1) |->
                            IF j < i THEN form.drafts[j] ELSE form.drafts[j + 1]]]
    /\ UNCHANGED submitted
    /\ FormUnchanged

\* part_008 lines 148, 162, 169: the onChange of the type select, the amount
\* input and the category select of a row
part008_updateDraft ==
    /\ form.page = "part_008" /\ form.isAdding
    /\ \E i \in 1..Len(form.drafts) :
        \E fields \in
            { [type |-> <<ty>>, amount |-> <<>>, category |-> <<>>] : ty \in {INCOME, EXPENSE} }
            \cup { [type |-> <<>>, amount |-> <<a>>, category |-> <<>>] : a \in AmountInputs }
            \cup { [type |-> <<>>, amount |-> <<>>, category |-> <<c>>] :
                     c \in Options(form.drafts[i].type) \cap CategoryPicks } :
            form' = [form EXCEPT !.drafts[i] = updateDraft(form.drafts[i], fields)]
    /\ UNCHANGED submitted
    /\ FormUnchanged

\* part_008 lines 72-91
part008_handleSubmitAll ==
    /\ form.page = "part_008" /\ form.isAdding
    /\ LET validDrafts == SelectSeq(form.drafts, validDraft)
       IN  IF Len(validDrafts) = 0
           THEN UNCHANGED <<form, submitted>>
           ELSE /\ submitted' = Payload(validDrafts)
                /\ form' = [form EXCEPT !.isAdding = FALSE, !.drafts = <<>>]
    /\ FormUnchanged

InitFormSpec ==
    /\ InitPage /\ variant = "geminiService" /\ apiKey = "KEY"
    /\ InitEnvironment
    /\ form \in {ClosedForm("part_009"), ClosedForm("part_008")}
    /\ submitted = <<>>
    /\ requests = <<>>
    /\ InitBackend
    /\ boot = Started("App", TRUE)

NextForm ==
    \/ part009_toggle
    \/ part009_edit
    \/ part009_handleSubmit
    \/ part008_startAdding
    \/ part008_addRow
    \/ part008_removeRow
    \/ part008_updateDraft
    \/ part008_handleSubmitAll

\* Either version of the entry form under every sequence of edits.
FormSpec == InitFormSpec /\ [][NextForm]_vars

\* ------------------------------------- pages/Analytics.tsx: runs of fetchAI
\* that overlap.  The effect of line 56 runs fetchAI whenever transactions is
\* a new array, also while an earlier run still awaits.
MaxOverlap == 2      \* fetchAI runs that can be in flight together

\* the page's state as one value
UI == [loading |-> loading, aiData |-> aiData, error |-> error, needsKey |-> needsKey]

SetUI(u) ==
    /\ loading' = u.loading
    /\ aiData' = u.aiData
    /\ error' = u.error
    /\ needsKey' = u.needsKey

\* lines 38-40
started(u) == [u EXCEPT !.loading = TRUE, !.error = <<>>, !.needsKey = FALSE]

\* lines 44-53 for the way getFinancialInsights ended
settled(u, r) ==
    LET v == [u EXCEPT !.loading = FALSE]
    IN  IF r.kind = "returned" THEN [v EXCEPT !.aiData = <<r.value>>]
        ELSE IF r.message = "API_KEY_REQUIRED" THEN [v EXCEPT !.needsKey = TRUE]
        ELSE [v EXCEPT !.error = <<r.message>>]

ReplyOf_latest(reqs, i) == reqs[Len(reqs)].reply

\* the value the await of run i resumes with: that of its own promise
ReplyOf(reqs, i) == reqs[i].reply

OverlapUnchanged ==
    UNCHANGED <<env, resolved, form, submitted, table, handlers, sessions, boot,
                envVars, appVars, reqVars>>

\* lines 36-43 up to the await
overlap_fetchAI ==
    /\ user # "none"
    /\ Len(transactions) # 0
    /\ Len(requests) < MaxOverlap
    /\ \E r \in getFinancialInsights_start(variant, apiKey, transactions) :
        IF r.kind = "call"
        THEN /\ requests' = Append(requests,
                    [txs |-> transactions, pc |-> "awaiting", reply |-> NoReply,
                     outcome |-> NoOutcome])
             /\ SetUI(started(UI))
        ELSE /\ requests' = Append(requests,
                    [txs |-> transactions, pc |-> "done", reply |-> NoReply,
                     outcome |-> r])
             /\ SetUI(settled(started(UI), r))
    /\ OverlapUnchanged

\* the provider answers one of the calls in flight, in any order
overlap_ProviderReplies ==
    /\ \E i \in 1..Len(requests) : \E rep \in Replies :
        /\ requests[i].pc = "awaiting"
        /\ requests' = [requests EXCEPT ![i].pc = "replied", ![i].reply = rep]
    /\ UNCHANGED uiVars
    /\ OverlapUnchanged

\* the continuation of one answered await: the rest of getFinancialInsights,
\* then lines 44-53
overlap_Resume ==
    /\ \E i \in 1..Len(requests) :
        /\ requests[i].pc = "replied"
        /\ LET r == getFinancialInsights_resume(variant, ReplyOf(requests, i))
           IN  IF r.kind = "call"
               THEN /\ requests' = [requests EXCEPT ![i].pc = "awaiting"]
                    /\ UNCHANGED uiVars
               ELSE /\ requests' = [requests EXCEPT ![i].pc = "done", ![i].outcome = r]
                    /\ SetUI(settled(UI, r))
    /\ OverlapUnchanged

InitOverlap == Init /\ variant = "geminiService"

\* fetchTransactions for a user with one row
fetchOneTransaction == \E r \in Rows(1) : LoadRows(r)

NextOverlap ==
    \/ fetchOneTransaction
    \/ overlap_fetchAI
    \/ overlap_ProviderReplies
    \/ overlap_Resume

\* The Analytics page with runs of fetchAI in flight together.
OverlapSpec == InitOverlap /\ [][NextOverlap]_vars

\* ------------------------------------- App.tsx: async functions in flight
\* A call of fetchTransactions, handleAddTransaction or handleDeleteTransaction
\* is sent to the backend, answered by it, and then runs its continuation.
\* closure is the transactions of the render the function was created in.
MaxCalls == 2        \* handler calls of a run
MaxSessions == 1     \* sign-ins of a run

Call(kind, closure, entry, id) ==
    [kind |-> kind, pc |-> "sent", closure |-> closure, entry |-> entry, id |-> id,
     ok |-> FALSE, data |-> <<>>]

AppUnchanged ==
    UNCHANGED <<env, resolved, form, submitted, requests, envVars, reqVars, uiVars, ops>>

ConcUnchanged == AppUnchanged /\ UNCHANGED boot

\* onAuthStateChange with a session (lines 34-36): fetchUserProfile sets user,
\* and the effect of lines 46-50 calls fetchTransactions
signIn ==
    /\ user = "none"
    /\ sessions < MaxSessions
    /\ sessions' = sessions + 1
    /\ user' = "u1"
    /\ handlers' = Append(handlers, Call("fetch", <<>>, <<>>, 0))
    /\ UNCHANGED <<transactions, memo, nextId, table>>
    /\ ConcUnchanged

\* onAuthStateChange without a session (lines 37-40)
signOut ==
    /\ user # "none"
    /\ user' = "none"
    /\ transactions' = <<>>
    /\ memo' = Analyze(<<>>, today)
    /\ UNCHANGED <<nextId, table, handlers, sessions>>
    /\ ConcUnchanged

\* lines 118-132: handleAddTransaction up to its await
beginAdd ==
    /\ Len(SelectSeq(handlers, LAMBDA c : c.kind # "fetch")) < MaxCalls
    /\ user # "none"
    /\ handlers' = Append(handlers,
            Call("add", transactions, <<Entry(EXPENSE, 10, "Food", 2)>>, 0))
    /\ UNCHANGED <<user, transactions, memo, nextId, table, sessions>>
    /\ ConcUnchanged

\* lines 149-153: handleDeleteTransaction up to its await, from the delete
\* button of a listed row
beginDelete ==
    /\ Len(SelectSeq(handlers, LAMBDA c : c.kind # "fetch")) < MaxCalls
    /\ \E i \in 1..Len(transactions) :
        handlers' = Append(handlers, Call("delete", transactions, <<>>, transactions[i].id))
    /\ UNCHANGED <<user, transactions, memo, nextId, table, sessions>>
    /\ ConcUnchanged

\* the backend serves one of the calls sent: the select, the insert (with the
\* row it stored) or the delete, or reports an error
backendAnswers ==
    /\ \E i \in 1..Len(handlers) : \E ok \in BOOLEAN :
        LET c == handlers[i]
            newT == Transaction(nextId, c.entry[1].type, c.entry[1].amount,
                                c.entry[1].category, c.entry[1].date)
        IN  /\ c.pc = "sent"
            /\ CASE ~ok ->
                    /\ handlers' = [handlers EXCEPT ![i].pc = "answered"]
                    /\ UNCHANGED <<table, nextId>>
                 [] ok /\ c.kind = "fetch" ->
                    /\ handlers' = [handlers EXCEPT ![i].pc = "answered", ![i].ok = TRUE,
                                                    ![i].data = table]
                    /\ UNCHANGED <<table, nextId>>
                 [] ok /\ c.kind = "add" ->
                    /\ handlers' = [handlers EXCEPT ![i].pc = "answered", ![i].ok = TRUE,
                                                    ![i].data = <<newT>>, ![i].id = nextId]
                    /\ table' = Prepend(newT, table)
                    /\ nextId' = nextId + 1
                 [] ok /\ c.kind = "delete" ->
                    /\ handlers' = [handlers EXCEPT ![i].pc = "answered", ![i].ok = TRUE]
                    /\ table' = Without(c.id, table)
                    /\ UNCHANGED nextId
    /\ UNCHANGED <<user, transactions, memo, sessions>>
    /\ ConcUnchanged

\* what the continuation of an answered call sets transactions to (lines
\* 83-94, 134-146, 155-157)
continuation(c, txs) ==
    CASE ~c.ok -> txs
      [] c.kind = "fetch" -> c.data
      [] c.kind = "add" -> Prepend(c.data[1], c.closure)
      [] c.kind = "delete" -> Without(c.id, c.closure)

\* the continuation of one answered await
complete ==
    /\ \E i \in 1..Len(handlers) :
        /\ handlers[i].pc = "answered"
        /\ handlers' = [handlers EXCEPT ![i].pc = "done"]
        /\ transactions' = continuation(handlers[i], transactions)
        /\ memo' = Analyze(continuation(handlers[i], transactions), today)
    /\ UNCHANGED <<user, nextId, table, sessions>>
    /\ ConcUnchanged

InitConc == Init /\ variant = "geminiService" /\ apiKey = "KEY"

NextConc ==
    \/ signIn
    \/ signOut
    \/ beginAdd
    \/ beginDelete
    \/ backendAnswers
    \/ complete

\* The App with its backend calls answered and continued in every order.
ConcSpec == InitConc /\ [][NextConc]_vars

\* ----------------------------------------- App: the start-up effect
\* App.tsx lines 18-32 (initSession) and part_014 lines 72-109 (init, with
\* its safety timeout).  pc: mount, getSession, profile, ended.
Mounting(version, configured) ==
    [version |-> version, configured |-> configured, pc |-> "mount",
     timer |-> "off", loading |-> TRUE, error |-> FALSE]

\* the effect up to the await of getSession
mount ==
    /\ boot.pc = "mount"
    /\ boot' = IF ~boot.configured
               THEN [boot EXCEPT !.pc = "ended", !.loading = FALSE]
               ELSE [boot EXCEPT !.pc = "getSession",
                                 !.timer = IF boot.version = "part_014" THEN "armed" ELSE "off"]
    /\ UNCHANGED <<appVars, table, handlers, sessions>>
    /\ AppUnchanged

\* after getSession: a session, none, an error in the result, a rejection
getSessionAnswers ==
    /\ boot.pc = "getSession"
    /\ \E answer \in {"session", "none", "sessionError", "rejected"} :
        boot' =
            IF answer = "session" THEN [boot EXCEPT !.pc = "profile"]
            ELSE IF boot.version = "part_014"
            THEN [boot EXCEPT !.pc = "ended", !.timer = "off", !.loading = FALSE]
            ELSE IF answer = "rejected"
            THEN [boot EXCEPT !.pc = "ended"]
            ELSE [boot EXCEPT !.pc = "ended", !.loading = FALSE]
    /\ UNCHANGED <<appVars, table, handlers, sessions>>
    /\ AppUnchanged

\* after fetchUserProfile, which catches its own errors: with the profile it
\* sets user, and the effect on user calls fetchTransactions
profileAnswers ==
    /\ boot.pc = "profile"
    /\ boot' = [boot EXCEPT !.pc = "ended", !.timer = "off", !.loading = FALSE]
    /\ \E data \in BOOLEAN :
        IF data /\ user = "none"
        THEN /\ user' = "u1"
             /\ sessions' = sessions + 1
             /\ handlers' = Append(handlers, Call("fetch", <<>>, <<>>, 0))
        ELSE UNCHANGED <<user, sessions, handlers>>
    /\ UNCHANGED <<transactions, memo, nextId, table>>
    /\ AppUnchanged

\* part_014 lines 83-92: the timeout of 5 s, while it is not cleared
bootTimeout ==
    /\ boot.timer = "armed"
    /\ boot' = IF boot.loading
               THEN [boot EXCEPT !.timer = "off", !.loading = FALSE, !.error = TRUE]
               ELSE [boot EXCEPT !.timer = "off"]
    /\ UNCHANGED <<appVars, table, handlers, sessions>>
    /\ AppUnchanged

InitBoot ==
    /\ InitPage /\ variant = "geminiService" /\ apiKey = "KEY"
    /\ InitEnvironment /\ InitForm /\ requests = <<>> /\ InitBackend
    /\ boot \in { Mounting(v, c) : v \in {"App", "part_014"}, c \in BOOLEAN }

NextBoot ==
    \/ mount
    \/ getSessionAnswers
    \/ profileAnswers
    \/ bootTimeout
    \/ signOut
    \/ beginAdd
    \/ beginDelete
    \/ backendAnswers
    \/ complete

\* The App from its mount on, in either version.
BootSpec == InitBoot /\ [][NextBoot]_vars

\* ================================================================ the claims
\* The local Heuristic Scorer's result for the transactions of the request.
LocalInsight == insights(reqTxs, today)

\* The kind of failure an answer of the provider is, "none" for a JSON body.
FailureKind(rep) ==
    IF ~rep.ok
    THEN IF Includes(rep.message, "403") \/ Includes(rep.message, "401")
            \/ Includes(rep.message, "API_KEY_INVALID")
         THEN "authorization rejected"
         ELSE IF Includes(rep.message, "429") THEN "rate-limited"
         ELSE "provider unavailable"
    ELSE IF rep.text = "empty" THEN "empty response"
    ELSE IF rep.text = "malformed" THEN "malformed response"
    ELSE "none"

\* The request called the provider, which answered with a failure, and ended.
EndedOnFailure == pc = "done" /\ calls >= 1 /\ FailureKind(reply) # "none"

ReturnedLocal ==
    /\ outcome.kind = "returned"
    /\ LocalInsight # <<>>
    /\ outcome.value = PObject(LocalInsight[1])

\* C1: getFinancialInsights never throws or rejects: whatever the list, the
\* credential and the provider's answer, a request that ended returned an
\* Insight value.
C1_NeverThrows ==
    pc = "done" => outcome.kind = "returned" /\ outcome.value.t = "object"

\* C2: when the remote call fails, the Insight returned is the local Heuristic
\* Scorer's result for the same transactions, field by field.
C2_FailureReturnsLocal == EndedOnFailure => ReturnedLocal

\* C3: with no credential the provider is never called and the request returns
\* the local Heuristic Scorer's result for the given transactions.
C3_NoCredentialIsLocal ==
    apiKey = "" => calls = 0 /\ (pc = "done" => ReturnedLocal)

\* C4: a remote answer valid in every field but a healthScore outside [0,100]
\* (500) is returned with the local score as healthScore and the remote values
\* in the other four fields.
C4_OutOfRangeScoreIsLocal ==
    pc = "done" /\ reply = Resolved("json", PObject(RemoteOutOfRange)) =>
        /\ outcome.kind = "returned"
        /\ LocalInsight # <<>>
        /\ outcome.value =
             PObject([RemoteOutOfRange EXCEPT !.healthScore = LocalInsight[1].healthScore])

ThreeRecommendations(insight) ==
    insight.recommendations.t = "array" /\ Len(insight.recommendations.arr) = 3

\* C5: every Insight has exactly 3 recommendations: the local scorer's for any
\* list, the no-credential result, the remote-failure result and a remote
\* success whatever its recommendations field was.
C5_ExactlyThreeRecommendations ==
    /\ memo.insights # <<>> => ThreeRecommendations(memo.insights[1])
    /\ pc = "done" /\ outcome.kind = "returned" /\ outcome.value.t = "object" =>
           ThreeRecommendations(outcome.value.obj)

NonEmptyString(v) == v.t = "string" /\ v.str # Lit("")

\* A non-null Insight, every field populated, healthScore an integer of 0..100.
WellFormed(m) ==
    /\ m # <<>>
    /\ NonEmptyString(m[1].analysis)
    /\ NonEmptyString(m[1].forecast)
    /\ NonEmptyString(m[1].savingsPotential)
    /\ m[1].recommendations.t = "array"
    /\ Len(m[1].recommendations.arr) >= 1
    /\ \A i \in 1..Len(m[1].recommendations.arr) : m[1].recommendations.arr[i] # Lit("")
    /\ m[1].healthScore.t = "number"
    /\ m[1].healthScore.num \in 0..100

C7_DistinctFailureOutcomes ==
    EndedOnFailure =>
        /\ \A other \in Replies :
               FailureKind(other) \notin {"none", FailureKind(reply)} =>
                   getFinancialInsights_resume(variant, other) # outcome
        /\ \A r \in getFinancialInsights_start(variant, "", reqTxs) :
               r.kind # "call" => r # outcome

\* C8: every request completes even when the provider never answers: the call
\* in flight is abandoned, the request ends and loading ends.
C8_RequestCompletes == (pc = "awaiting") ~> (pc = "done" /\ ~loading)

\* C9: within one request the provider is called at most once; no failure of
\* the call makes the request call again.
C9_AtMostOneCall == calls <= 1

\* A request that was rate-limited ended with its one call.
C9_Witness ==
    pc = "done" /\ calls = 1 /\ FailureKind(reply) = "rate-limited"

\* The rows of date d or later.
CountFrom(rows, d) == Len(SelectSeq(rows, LAMBDA t : t.date >= d))

\* payload is the Len(payload) most recent rows of txs by date.
MostRecent(payload, txs) ==
    \A d \in Dates : CountFrom(payload, d) = Min(Len(payload), CountFrom(txs, d))

\* C10: the payload sent is the N most recent transactions by date of the
\* current list, N a fixed cap, and never more than N, after any adds and
\* deletes.
C10_PayloadIsMostRecentN ==
    calls >= 1 =>
        \E N \in {part001_cap, part000_cap} :
            /\ Len(sent) = Min(N, Len(reqTxs))
            /\ MostRecent(sent, reqTxs)

\* The totals of the current list, over all its records.
TotalIncome == SumAmounts(OfType(transactions, INCOME))
TotalExpense == SumAmounts(OfType(transactions, EXPENSE))

ScoreOf(m) == m[1].healthScore.num

\* clamp(round(savingsRate * 100) + 20, 0, 100) for income > 0
ClaimedScore(income, expense) ==
    Min(100, Max(0, RoundFrac((income - expense) * 100, income) + 20))

\* C11: with total income > 0 the local healthScore is
\* clamp(round(savingsRate * 100) + 20, 0, 100), whatever the number of
\* categories and the sign of the balance.
C11_ScoreIsSavingsRatePlus20 ==
    TotalIncome > 0 =>
        /\ ScoreOf(memo.insights) = ClaimedScore(TotalIncome, TotalExpense)
        /\ ScoreOf(memo.data) = ClaimedScore(TotalIncome, TotalExpense)
        /\ ScoreOf(memo.analyticsData) = ClaimedScore(TotalIncome, TotalExpense)

\* C12: with no income and at least one expense the local healthScore is 20.
C12_NoIncomeScoreIs20 ==
    TotalIncome = 0 /\ TotalExpense > 0 =>
        ScoreOf(memo.insights) = 20 /\ ScoreOf(memo.data) = 20

\* The tier of C13 for a score, and the rank of a tier's label.
ClaimedTier(score) ==
    IF score > 80 THEN "top" ELSE IF score > 50 THEN "middle" ELSE "lowest"

TierRank(label) ==
    CASE label \in {"EXPERT", "ELITE"} -> "top"
      [] label = "STABLE" -> "middle"
      [] label \in {"ACTION REQ.", "CRITICAL"} -> "lowest"
      [] OTHER -> "none"

\* C13: the tier shown with a health score is the top tier exactly when the
\* score is above 80, STABLE exactly when it is above 50 and at most 80, the
\* lowest tier exactly when it is at most 50.
C13_TierThresholds ==
    /\ memo.insights # <<>> => TierRank(memo.tier) = ClaimedTier(ScoreOf(memo.insights))
    /\ TierRank(memo.rating) = ClaimedTier(ScoreOf(memo.analyticsData))
    /\ aiData # <<>> /\ aiData[1].t = "object" /\ aiData[1].obj.healthScore.t = "number" =>
           TierRank(part013_tier(aiData[1].obj.healthScore.num))
               = ClaimedTier(aiData[1].obj.healthScore.num)

\* The rule of C14 that is first to match a list.
ClaimedRule(txs) ==
    LET income == SumAmounts(OfType(txs, INCOME))
        expense == SumAmounts(OfType(txs, EXPENSE))
        categories == CatMap(OfType(txs, EXPENSE), <<>>)
    IN  IF expense > income THEN "overspend"
        ELSE IF income > 0 /\ (income - expense) * 10 > 3 * income THEN "congratulatory"
        ELSE IF \E i \in 1..Len(categories) : categories[i].value * 10 > 4 * expense
        THEN "category"
        ELSE "neutral"

\* The rules an analysis text of the scorers can stand for; the second text of
\* part_012 names the savings rate and the top category alike.
RulesOf(text) ==
    CASE text.s \in {"Your spending currently exceeds your income by",
                     "Your spending exceeds your income.",
                     "Your expenses are outpacing your income."} -> {"overspend"}
      [] text.s \in {"Excellent wealth accumulation.", "Exceptional savings rate."} ->
             {"congratulatory"}
      [] text.s = "Dining and groceries account for the majority of your outflow." ->
             {"category"}
      [] text.s \in {"Your financial profile shows consistent activity.",
                     "Your spending is currently stable."} -> {"neutral"}
      [] text.s = "You are successfully saving" -> {"congratulatory", "category", "neutral"}
      [] OTHER -> {}

FollowsRules(m) == m # <<>> => ClaimedRule(transactions) \in RulesOf(m[1].analysis.str)

\* C14: the local analysis text is that of the first rule to match: overspend
\* when expense > income (also with no income), else congratulatory when the
\* savings rate is above 30%, else the category text when one category holds
\* more than 40% of the expense, else the neutral text.
C14_AnalysisRuleOrder ==
    FollowsRules(memo.insights) /\ FollowsRules(memo.data) /\ FollowsRules(memo.analyticsData)

\* C15: whenever total income is 0, the empty list included, the savings rate
\* computed is exactly 0 and nothing is divided by zero: for the Dashboard on
\* the records of the month, for the Analytics scorer on all records.
C15_ZeroIncomeRateIsZero ==
    /\ savingsRate(TotalIncome, TotalExpense)[2] # 0
    /\ TotalIncome = 0 => savingsRate(TotalIncome, TotalExpense)[1] = 0
    /\ memo.metrics.income = 0 => memo.metrics.savingsRate = 0

\* Expenses and no income, in the month and in all: the rate shown is 0.
C15_Witness ==
    /\ TotalIncome = 0 /\ TotalExpense > 0
    /\ memo.metrics.income = 0 /\ memo.metrics.expenses > 0
    /\ memo.metrics.savingsRate = 0

\* The sum of the amounts of the records at the positions I.
RECURSIVE SumAt(_, _)
SumAt(txs, I) ==
    IF I = {} THEN 0
    ELSE LET i == CHOOSE j \in I : TRUE IN txs[i].amount + SumAt(txs, I \ {i})

\* The sum of the amounts of the records of a type dated from a date on.
SumOfType(txs, ty, from) ==
    SumAt(txs, { i \in 1..Len(txs) : txs[i].type = ty /\ txs[i].date >= from })

\* The sum of the amounts of all the records of a type.
SumOfAll(txs, ty) == SumAt(txs, { i \in 1..Len(txs) : txs[i].type = ty })

RECURSIVE SumValuesAt(_, _)
SumValuesAt(cats, I) ==
    IF I = {} THEN 0
    ELSE LET i == CHOOSE j \in I : TRUE IN cats[i].value + SumValuesAt(cats, I \ {i})

ExpenseAt(txs, name) ==
    { i \in 1..Len(txs) : txs[i].type = EXPENSE /\ txs[i].category = name }

\* C17: the category totals hold exactly the categories with an EXPENSE
\* record, once each, with the sum of its EXPENSE amounts; INCOME records add
\* nothing, also under the name both kinds share; the totals add up to the
\* total expense.
C17_CategoryTotals ==
    LET cd == chartData(transactions)
    IN  cd # <<>> =>
            LET cats == cd[1].categories
            IN  /\ { cats[i].name : i \in 1..Len(cats) }
                     = { transactions[i].category :
                           i \in { j \in 1..Len(transactions) : transactions[j].type = EXPENSE } }
                /\ \A i, j \in 1..Len(cats) : cats[i].name = cats[j].name => i = j
                /\ \A i \in 1..Len(cats) :
                       cats[i].value = SumAt(transactions, ExpenseAt(transactions, cats[i].name))
                /\ SumValuesAt(cats, 1..Len(cats)) = SumOfAll(transactions, EXPENSE)

\* An income and two expenses under 'Other', and a second category.
C17_Witness ==
    /\ chartData(transactions) # <<>>
    /\ Len(chartData(transactions)[1].categories) = 2
    /\ \E i \in 1..Len(transactions) :
           transactions[i].type = INCOME /\ transactions[i].category = "Other"
    /\ Cardinality(ExpenseAt(transactions, "Other")) = 2

Descending(cats) == \A i \in 1..(Len(cats) - 1) : cats[i].value >= cats[i + 1].value

\* C18: the category totals are ordered by amount, largest first.
C18_CategoryTotalsDescending ==
    /\ chartData(transactions) # <<>> => Descending(chartData(transactions)[1].categories)
    /\ Descending(memo.categoryData)

PotentialOf(m) == m[1].savingsPotential.str

\* C19: an expense added in a category outside the flexible ones leaves the
\* local savings potential as it was.
C19_OutsideExpenseKeepsPotential ==
    [][ /\ Len(transactions) > 0
        /\ Len(transactions') = Len(transactions) + 1
        /\ transactions'[1].type = EXPENSE
        /\ transactions'[1].category \notin flexibleCategories
        => /\ PotentialOf(memo.insights') = PotentialOf(memo.insights)
           /\ PotentialOf(memo.data') = PotentialOf(memo.data)
           /\ PotentialOf(memo.analyticsData') = PotentialOf(memo.analyticsData) ]_vars

\* C20: the forecast of insights is the total expense over the days elapsed
\* in the month, times the days of the month, for a list of any length.
C20_ForecastIsDailyBurn ==
    memo.insights # <<>> =>
        memo.insights[1].forecast.str.n
            = <<RoundFrac(TotalExpense * today.dim * 1000, today.day)>>

\* C22: the resolver of a variable returns the first non-empty value in the
\* order of its sources: with process.env there but holding no value (or an
\* empty one) and import.meta.env holding a non-empty one, the value of
\* import.meta.env is what it returns.
C22_LaterSourceIsReturned ==
    (/\ resolved.by \in Resolvers
     /\ env.process = "env" /\ ~TruthyValue(env.penv)
     /\ env.meta = "env" /\ TruthyValue(env.menv))
        => (~resolved.threw /\ resolved.value = env.menv)

\* C23: reading the API credential never throws, whatever the environment:
\* without a global process, without process.env, with the variable missing
\* or empty, the credential is absent and the service goes on.
C23_CredentialNeverThrows ==
    resolved.by \in CredentialReaders => ~resolved.threw

\* C24: every record the entry form hands to onAdd has a numeric amount
\* above zero and a category of the list valid for its type, whatever the
\* type switches, category selections, amount edits and row additions and
\* removals before the submit.
C24_SubmittedAreValid ==
    \A i \in 1..Len(submitted) :
        /\ submitted[i].amount # <<>>
        /\ submitted[i].amount[1] > 0
        /\ ValidNew(submitted[i])

\* two rows submitted at once, the first switched to INCOME
C24_Witness ==
    /\ form.page = "part_008"
    /\ Len(submitted) = 2
    /\ submitted[1].type = INCOME
    /\ submitted[2].type = EXPENSE

\* What a run of getFinancialInsights gives when it is the only one: the
\* service's own steps on the run's transactions and the provider's answer
\* to it.
Alone(q) ==
    LET first == CHOOSE r \in getFinancialInsights_start(variant, apiKey, q.txs) : TRUE
    IN  IF first.kind = "call" THEN getFinancialInsights_resume(variant, q.reply)
        ELSE first

C27_LastIssuedWins ==
    /\ (/\ Len(requests) >= 2
        /\ \A i \in 1..Len(requests) : requests[i].pc = "done"
        /\ requests[Len(requests)].outcome.kind = "returned")
            => aiData = <<requests[Len(requests)].outcome.value>>
    /\ ~loading => \A i \in 1..Len(requests) : requests[i].pc = "done"

Ids(txs) == { txs[i].id : i \in 1..Len(txs) }

HandlerCalls == { i \in 1..Len(handlers) : handlers[i].kind # "fetch" }

\* C26: with several handleAddTransaction and handleDeleteTransaction calls
\* in flight at once, all accepted by the backend, the list after the last
\* completion holds every inserted record and none of the deleted ones.
\* (The calls counted are those issued on the fetched list, in one session.)
C26_EveryCompletionIsKept ==
    (/\ user # "none"
     /\ \A i \in 1..Len(handlers) : handlers[i].pc = "done" /\ handlers[i].ok
     /\ \A i \in HandlerCalls : StoredRow.id \in Ids(handlers[i].closure))
        => \A i \in HandlerCalls :
            IF handlers[i].kind = "add"
            THEN handlers[i].id \in Ids(transactions)
            ELSE handlers[i].id \notin Ids(transactions)

\* C28: with no user signed in, transactions is empty, also when a
\* fetchTransactions started before the sign-out completes after it.
C28_EmptyWhileSignedOut ==
    user = "none" => transactions = <<>>

\* C29: the continuation of handleAddTransaction or handleDeleteTransaction
\* leaves the list as it is when the backend reported an error or no user
\* is signed in.
C29_NoChangeWithoutConfirmation ==
    [][\A i \in HandlerCalls :
        (/\ handlers[i].pc = "answered"
         /\ handlers'[i].pc = "done"
         /\ (~handlers[i].ok \/ user = "none"))
            => transactions' = transactions]_vars

\* C30: start-up always leaves the loading state: when the start-up effect
\* has run to its end, by any path, loading is false.
C30_StartupEndsLoading ==
    boot.pc = "ended" => ~boot.loading

\* A list with the same totals and the same category totals as txs: its
\* first record entered as two records of half the amount each.
SplitFirst(txs) ==
    LET t == txs[1]
        half == t.amount \div 2
    IN  <<Transaction(t.id, t.type, half, t.category, t.date),
          Transaction(nextId, t.type, t.amount - half, t.category, t.date)>>
        \o Tail(txs)

\* C21: the local scorer is a function of the summary alone: two lists with
\* the same total income, total expense and category totals, scored on the
\* same date, get the same healthScore, analysis, forecast, recommendations
\* and savingsPotential.
C21_FunctionOfSummary ==
    (user # "none" /\ transactions # <<>>)
        => /\ memo.insights = insights(SplitFirst(transactions), today)
           /\ memo.data = part011_data(SplitFirst(transactions))

====
